---- MODULE Spec2Model ----
(***************************************************************************)
(* Model of src/main.py: a sequential batch job that reads a list of       *)
(* Confluence page URLs, fetches every page, resolves the creator's        *)
(* display name through a per-run cache and appends one Markdown block per *)
(* page to an output file.                                                 *)
(*                                                                         *)
(* Text is modelled at token level: a URL is a scheme, a host and the      *)
(* sequence of tokens that follows the host; a formatted line is the pair  *)
(* <<label, value>>.  The Japanese literals of the source are written as   *)
(* ASCII glosses (the module's strings are ASCII only).                    *)
(***************************************************************************)
EXTENDS Naturals, Sequences, FiniteSets, TLC

VARIABLES
    pc,          \* position of main(): "main", "read", "open", "loop", "done", "raised", "aborted"
    api_token,   \* os.getenv('CONFLUENCE_API_TOKEN')
    user_name,   \* os.getenv('CONFLUENCE_USER_NAME')
    urls_txt,    \* urls.txt: whether it exists, and its lines
    page_urls,   \* the stripped non-blank lines
    i,           \* index of the next URL of the for loop
    user_cache,  \* the display-name cache of the run
    md_file,     \* the content of the output file: the chunks written so far
    handle,      \* the output file handle: "none", "open", "closed"
    net,         \* log of the network requests issued through the session
    calls,       \* log of the calls of get_display_name
    trace,       \* log of the loop iterations: the parse and fetch results
    origin,      \* for each chunk of md_file, the index of the URL it was written for
    url_in,      \* parser harness: the URL handed to parse_confluence_url
    parse_out    \* parser harness: the value returned, once it has returned

vars == <<pc, api_token, user_name, urls_txt, page_urls, i, user_cache, md_file,
          handle, net, calls, trace, origin, url_in, parse_out>>

batchVars == <<pc, api_token, user_name, urls_txt, page_urls, i, user_cache, md_file,
               handle, net, calls, trace, origin>>

----------------------------------------------------------------------------
(* Bounds *)

MaxLines == 3

MaxUrlLen == 5

----------------------------------------------------------------------------
(* Values *)

\* Python's None
None == "None"

\* a line of urls.txt that is empty after strip()
BlankLine == [scheme |-> "", host |-> "", rest |-> <<>>]

\* get_display_name did not return: the exception of session.get left it
Raised == "raised"

\* the fallback label of an absent creator, Japanese for "unknown creator"
UnknownCreator == "unknown creator"

Digits == {"1", "2"}

\* the tokens a URL is made of after "{scheme}://{host}"
Tokens == {"/", "/pages/", "/viewpage.action", "?", "pageId=", "&", "a"} \cup Digits

\* the tokens that start with "/": the path of a URL starts at the first of them
SlashTokens == {"/", "/pages/", "/viewpage.action"}

SeqsUpTo(S, n) == UNION {[1..k -> S] : k \in 0..n}

\* Python's truth value of a string, with None and "" both the empty sequence
Truthy(s) == s # <<>>

----------------------------------------------------------------------------
(* parse_confluence_url *)

\* index of the first token of s at or after k that is in T, or Len(s) + 1
RECURSIVE FirstIn(_, _, _)
FirstIn(s, T, k) ==
    IF k > Len(s) THEN Len(s) + 1
    ELSE IF s[k] \in T THEN k
    ELSE FirstIn(s, T, k + 1)

\* urlparse(url): the netloc runs up to the first "/" or "?", the path up to
\* the first "?", the query is the rest; a ValueError for the host "[" (an
\* IPv6 bracket that is not closed)
urlparse(url) ==
    LET p == FirstIn(url.rest, SlashTokens \cup {"?"}, 1)
        q == FirstIn(url.rest, {"?"}, 1)
    IN  [error  |-> url.host = "[",
         scheme |-> url.scheme,
         netloc |-> <<url.host>> \o SubSeq(url.rest, 1, p - 1),
         path   |-> SubSeq(url.rest, p, q - 1),
         query  |-> SubSeq(url.rest, q + 1, Len(url.rest))]

\* the "name=value" pieces of a query string, split at "&"
RECURSIVE SplitAmp(_)
SplitAmp(s) ==
    LET k == FirstIn(s, {"&"}, 1)
    IN  IF k > Len(s) THEN <<s>>
        ELSE <<SubSeq(s, 1, k - 1)>> \o SplitAmp(SubSeq(s, k + 1, Len(s)))

\* parse_qs(query).get('pageId', [None])[0]: the value of the first piece
\* "pageId=value" whose value is not blank (parse_qs drops blank values and
\* pieces of another name); <<>> stands for None
RECURSIVE FirstPageIdValue(_)
FirstPageIdValue(pieces) ==
    IF pieces = <<>> THEN <<>>
    ELSE LET p == Head(pieces)
         IN  IF Len(p) > 1 /\ p[1] = "pageId="
             THEN Tail(p)
             ELSE FirstPageIdValue(Tail(pieces))

parse_qs_pageId(query) == FirstPageIdValue(SplitAmp(query))

\* the longest run of digits of s that starts at position k
RECURSIVE DigitRun(_, _)
DigitRun(s, k) ==
    IF k > Len(s) THEN <<>>
    ELSE IF s[k] \notin Digits THEN <<>>
    ELSE <<s[k]>> \o DigitRun(s, k + 1)

\* re.search(r'/pages/(\d+)', path).group(1): the leftmost match, <<>> for no match
RECURSIVE SearchPages(_, _)
SearchPages(path, k) ==
    IF k + 1 > Len(path) THEN <<>>
    ELSE IF path[k] = "/pages/" /\ path[k + 1] \in Digits
         THEN DigitRun(path, k + 1)
         ELSE SearchPages(path, k + 1)

\* f"{parsed_url.scheme}://{parsed_url.netloc}/wiki"
BaseUrlOf(parsed_url) == <<parsed_url.scheme, "://">> \o parsed_url.netloc \o <<"/wiki">>

\* the branch of the query-parameter shape: the raw value of pageId, if any
ViewpagePageId(parsed_url) ==
    IF \E k \in 1..Len(parsed_url.path) : parsed_url.path[k] = "/viewpage.action"
    THEN parse_qs_pageId(parsed_url.query)
    ELSE <<>>

\* return None, None
ParseFailure == [base_url |-> <<>>, page_id |-> <<>>]

parse_confluence_url(url) ==
    LET parsed_url == urlparse(url)
        base_url == BaseUrlOf(parsed_url)
        qid == ViewpagePageId(parsed_url)
        m == SearchPages(parsed_url.path, 1)
    IN  IF parsed_url.error THEN ParseFailure
        ELSE IF Truthy(qid) THEN [base_url |-> base_url, page_id |-> qid]
        ELSE IF Truthy(m) THEN [base_url |-> base_url, page_id |-> m]
        ELSE ParseFailure

----------------------------------------------------------------------------
(* The remote API *)

AccountIds == {"a1", "a2"}

DisplayNames == {"Jane Doe"}

\* the status codes the server answers with
StatusCodes == {200, 404}

\* the JSON of a page: a field that is None is a key the document lacks.
\* Every subset of title, creator and last-updated is absent in some document.
PageJsons ==
    {j \in [title : {None, "Spec"},
            accountId : {None, ""} \cup AccountIds,
            friendlyWhen : {None, "2 days ago"},
            space_key : {"ENG"},
            space_name : {"Engineering"},
            webui : {"/spaces/ENG/pages/1"},
            body : {"<h1>Hi</h1>"}] :
        j.accountId \in {"", "a2"} => (j.title # None /\ j.friendlyWhen # None)}
    \cup
    {[title |-> "Spec", accountId |-> None, friendlyWhen |-> "2 days ago",
      space_key |-> None, space_name |-> None, webui |-> None, body |-> None]}

NoJson ==
    [title |-> None, accountId |-> None, friendlyWhen |-> None, space_key |-> None,
     space_name |-> None, webui |-> None, body |-> None]

\* what session.get does for a page request: it raises a transport error, or
\* it returns a response with a status code and a JSON document
PageResponses ==
    {[error |-> TRUE, status_code |-> 0, json |-> NoJson]}
    \cup {[error |-> FALSE, status_code |-> 404, json |-> NoJson]}
    \cup [error : {FALSE}, status_code : {200}, json : PageJsons]

\* what session.get does for a user request
UserResponses ==
    {[error |-> TRUE, status_code |-> 0, displayName |-> None]}
    \cup {[error |-> FALSE, status_code |-> 404, displayName |-> None]}
    \cup [error : {FALSE}, status_code : {200}, displayName : {None} \cup DisplayNames]

\* response.raise_for_status() raises an HTTPError
RaisesForStatus(response) == response.status_code >= 400 /\ response.status_code < 600

\* get_page returns None
NoPage == [none |-> TRUE, json |-> NoJson]

get_page(response) ==
    IF response.error \/ RaisesForStatus(response) THEN NoPage
    ELSE [none |-> FALSE, json |-> response.json]

\* markdownify of the storage-format body, a black box of the library
extract_data_from_html(html_content) ==
    IF html_content = "<h1>Hi</h1>" THEN "# Hi" ELSE ""

----------------------------------------------------------------------------
(* get_display_name *)

\* a resolver that tests for None only and takes "" for an account id
NotAccountIdNoneOnly(account_id) == account_id = None

\* if not account_id
NotAccountId(account_id) == account_id \in {None, ""}

\* a resolver that never finds an id in the cache
CacheHitNever(account_id, cache) == FALSE

\* if account_id in cache
CacheHit(account_id, cache) == account_id \in DOMAIN cache

\* cache[account_id] = display_name
CacheStore(cache, account_id, display_name) ==
    [k \in DOMAIN cache \cup {account_id} |->
        IF k = account_id THEN display_name ELSE cache[k]]

\* response.json().get("displayName", account_id)
DisplayNameOf(response, account_id) ==
    IF response.displayName = None THEN account_id ELSE response.displayName

\* a resolver that caches the raw account id when the lookup failed
CacheAfterFailureStores(cache, account_id) == CacheStore(cache, account_id, account_id)

\* the cache left by the branch of a status other than 200
CacheAfterFailure(cache, account_id) == cache

\* the result of one call: the value returned (Raised when session.get raised),
\* the cache it leaves and whether a request was sent
get_display_name(account_id, cache, response) ==
    IF NotAccountId(account_id)
    THEN [ret |-> UnknownCreator, cache |-> cache, sent |-> FALSE]
    ELSE IF CacheHit(account_id, cache)
    THEN [ret |-> cache[account_id], cache |-> cache, sent |-> FALSE]
    ELSE IF response.error
    THEN [ret |-> Raised, cache |-> cache, sent |-> TRUE]
    ELSE IF response.status_code = 200
    THEN [ret |-> DisplayNameOf(response, account_id),
          cache |-> CacheStore(cache, account_id, DisplayNameOf(response, account_id)),
          sent |-> TRUE]
    ELSE [ret |-> account_id, cache |-> CacheAfterFailure(cache, account_id), sent |-> TRUE]

----------------------------------------------------------------------------
(* process_pages_from_urls *)

\* page.get('title', 'No Title')
PageTitle(json) == IF json.title = None THEN "No Title" ELSE json.title

\* space_info.get('name', space_key)
SpaceName(json) == IF json.space_name = None THEN json.space_key ELSE json.space_name

\* the text of a URL as it stands in urls.txt
UrlText(url) == <<url.scheme, "://", url.host>> \o url.rest

\* page.get('_links', {}).get('webui', url)
PageLink(json, url) == IF json.webui = None THEN UrlText(url) ELSE <<json.webui>>

\* page.get('version', {}).get('friendlyWhen', 'N/A')
LastUpdated(json) == IF json.friendlyWhen = None THEN "N/A" ELSE json.friendlyWhen

\* page.get("body", {}).get("storage", {}).get("value", "")
PageContents(json) == IF json.body = None THEN "" ELSE json.body

\* markdown_content, line by line: a line is <<label, value>> and "\n\n" ends
\* a line and adds an empty one.  The labels of the source are "# ", "URL: "
\* and the Japanese for "Space: ", "Author: ", "Last updated: ".
MarkdownContent(json, url, creator_display_name) ==
    << <<"# ", <<PageTitle(json)>> >>,
       <<"URL: ", PageLink(json, url)>>,
       <<"Space: ", <<SpaceName(json)>> >>,
       <<"Author: ", <<creator_display_name>> >>,
       <<"Last updated: ", <<LastUpdated(json)>> >>,
       <<"", <<>> >>,
       <<"", <<extract_data_from_html(PageContents(json))>> >>,
       <<"", <<>> >> >>

\* a write that goes to the start of the file
WritePrepend(file, content) == <<content>> \o file

\* md_file.write(markdown_content) on a file opened in append mode
Write(file, content) == Append(file, content)

\* a block that leaves the handle as it is
WithExitLeak(h) == h

\* the end of the with block, reached by the end of the loop and by an exception
WithExit(h) == "closed"

\* if page: a dict is true unless it is empty
PageTruthy(page) == ~page.none /\ page.json # NoJson

----------------------------------------------------------------------------
(* main *)

\* a check that forgets the user name
CredentialsMissingTokenOnly(token, user) == token \in {None, ""}

\* if not api_token or not user_name
CredentialsMissing(token, user) == token \in {None, ""} \/ user \in {None, ""}

\* [line.strip() for line in f if line.strip()]
RECURSIVE StripLines(_)
StripLines(lines) ==
    IF lines = <<>> THEN <<>>
    ELSE IF Head(lines) = BlankLine THEN StripLines(Tail(lines))
    ELSE <<Head(lines)>> \o StripLines(Tail(lines))

\* the URLs of the batch model: one of the path shape, one of no known shape
UrlPath == [scheme |-> "https", host |-> "example.atlassian.net", rest |-> <<"/pages/", "1", "2">>]

UrlBad == [scheme |-> "https", host |-> "example.atlassian.net", rest |-> <<"/", "a">>]

BatchUrls == {UrlPath, UrlBad}

UrlFiles ==
    {[exists |-> FALSE, lines |-> <<>>]}
    \cup [exists : {TRUE}, lines : SeqsUpTo(BatchUrls \cup {BlankLine}, MaxLines)]

\* the inputs of the parser harness
ParserInputs ==
    [scheme : {"https"}, host : {"example.atlassian.net"}, rest : SeqsUpTo(Tokens, MaxUrlLen)]
    \cup [scheme : {"https"}, host : {"["}, rest : {UrlPath.rest}]

ParseIdle == [done |-> FALSE, base_url |-> <<>>, page_id |-> <<>>]

EmptyCache == [k \in {} |-> ""]

InitBatch ==
    /\ pc = "main"
    /\ page_urls = <<>>
    /\ i = 1
    /\ user_cache = EmptyCache
    /\ md_file = <<>>
    /\ handle = "none"
    /\ net = <<>>
    /\ calls = <<>>
    /\ trace = <<>>
    /\ origin = <<>>

Init ==
    /\ InitBatch
    /\ api_token \in {None, "", "token"}
    /\ user_name \in {None, "user@example.com"}
    /\ urls_txt \in UrlFiles
    /\ url_in = UrlPath
    /\ parse_out = ParseIdle

\* main, lines 158-164
CheckCredentials ==
    /\ pc = "main"
    /\ pc' = IF CredentialsMissing(api_token, user_name) THEN "aborted" ELSE "read"
    /\ UNCHANGED <<api_token, user_name, urls_txt, page_urls, i, user_cache, md_file,
                   handle, net, calls, trace, origin, url_in, parse_out>>

\* main, lines 166-182
ReadUrls ==
    /\ pc = "read"
    /\ IF ~urls_txt.exists
       THEN pc' = "aborted" /\ page_urls' = page_urls
       ELSE /\ page_urls' = StripLines(urls_txt.lines)
            /\ pc' = IF page_urls' = <<>> THEN "aborted" ELSE "open"
    /\ UNCHANGED <<api_token, user_name, urls_txt, i, user_cache, md_file,
                   handle, net, calls, trace, origin, url_in, parse_out>>

\* process_pages_from_urls, lines 107-117
OpenOutput ==
    /\ pc = "open"
    /\ user_cache' = EmptyCache
    /\ handle' = "open"
    /\ i' = 1
    /\ pc' = "loop"
    /\ UNCHANGED <<api_token, user_name, urls_txt, page_urls, md_file,
                   net, calls, trace, origin, url_in, parse_out>>

PageRequest(parsed) == [kind |-> "page", id |-> parsed.page_id]

UserRequest(account_id) == [kind |-> "user", id |-> <<account_id>>]

\* one pass of the for loop, lines 118-154, with the responses the two
\* requests get
Iterate(page_response, user_response) ==
    LET url == page_urls[i]
        parsed == parse_confluence_url(url)
        skip == ~Truthy(parsed.page_id) \/ ~Truthy(parsed.base_url)
        page == get_page(page_response)
        json == page.json
        r == get_display_name(json.accountId, user_cache, user_response)
        call == [idx |-> i, account_id |-> json.accountId, sent |-> r.sent,
                 error |-> r.sent /\ user_response.error,
                 status_code |-> IF r.sent /\ ~user_response.error
                                 THEN user_response.status_code ELSE 0,
                 ret |-> r.ret, before |-> user_cache, after |-> r.cache]
    IN  /\ pc = "loop"
        /\ i <= Len(page_urls)
        /\ IF skip
           THEN /\ trace' = Append(trace, [parsed |-> FALSE, fetched |-> FALSE, json |-> NoJson])
                /\ i' = i + 1
                /\ UNCHANGED <<pc, user_cache, md_file, handle, net, calls, origin>>
           ELSE IF ~PageTruthy(page)
           THEN /\ trace' = Append(trace, [parsed |-> TRUE, fetched |-> FALSE, json |-> NoJson])
                /\ net' = Append(net, PageRequest(parsed))
                /\ i' = i + 1
                /\ UNCHANGED <<pc, user_cache, md_file, handle, calls, origin>>
           ELSE /\ trace' = Append(trace, [parsed |-> TRUE, fetched |-> TRUE, json |-> json])
                /\ net' = IF r.sent
                          THEN net \o <<PageRequest(parsed), UserRequest(json.accountId)>>
                          ELSE Append(net, PageRequest(parsed))
                /\ calls' = Append(calls, call)
                /\ user_cache' = r.cache
                /\ IF r.ret = Raised
                   THEN /\ handle' = WithExit(handle)
                        /\ pc' = "raised"
                        /\ UNCHANGED <<i, md_file, origin>>
                   ELSE /\ md_file' = Write(md_file, MarkdownContent(json, url, r.ret))
                        /\ origin' = Write(origin, i)
                        /\ i' = i + 1
                        /\ UNCHANGED <<pc, handle>>
        /\ UNCHANGED <<api_token, user_name, urls_txt, page_urls, url_in, parse_out>>

ProcessUrl == \E page_response \in PageResponses, user_response \in UserResponses :
    Iterate(page_response, user_response)

\* the for loop ends and the with block closes the file
ExitLoop ==
    /\ pc = "loop"
    /\ i > Len(page_urls)
    /\ handle' = WithExit(handle)
    /\ pc' = "done"
    /\ UNCHANGED <<api_token, user_name, urls_txt, page_urls, i, user_cache, md_file,
                   net, calls, trace, origin, url_in, parse_out>>

Next == CheckCredentials \/ ReadUrls \/ OpenOutput \/ ProcessUrl \/ ExitLoop

Spec == Init /\ [][Next]_vars

\* the single thread of main runs on until it returns or raises
FairSpec == Spec /\ WF_vars(Next)

----------------------------------------------------------------------------
(* The parser on its own: every URL of the bounded alphabet *)

InitParse ==
    /\ InitBatch
    /\ api_token = "token"
    /\ user_name = "user@example.com"
    /\ urls_txt = [exists |-> TRUE, lines |-> <<>>]
    /\ url_in \in ParserInputs
    /\ parse_out = ParseIdle

Parse ==
    /\ ~parse_out.done
    /\ parse_out' = [done |-> TRUE,
                     base_url |-> parse_confluence_url(url_in).base_url,
                     page_id |-> parse_confluence_url(url_in).page_id]
    /\ UNCHANGED <<url_in, pc, api_token, user_name, urls_txt, page_urls, i, user_cache,
                   md_file, handle, net, calls, trace, origin>>

NextParse == Parse

ParseSpec == InitParse /\ [][NextParse]_vars

----------------------------------------------------------------------------
(* Properties *)

\* the for loop has been left, by its end or by an exception
LoopLeft == pc \in {"done", "raised"}

\* the number of user lookups sent for an account id
LookupCount(id) == Cardinality({k \in 1..Len(net) : net[k] = UserRequest(id)})

\* the calls of the resolver made with an account id
CallsOf(id) == {j \in 1..Len(calls) : calls[j].account_id = id}

IsPrefix(a, b) == Len(a) <= Len(b) /\ SubSeq(b, 1, Len(a)) = a

\* C1, as stated: for every non-empty account id and whatever the lookup
\* endpoint answers, at most one network lookup is sent per id and run.
C1_AtMostOneLookupPerId ==
    \A id \in AccountIds : LookupCount(id) <= 1

\* C1, amended: for every non-empty account id, once a lookup of the id has
\* been answered with status 200, every later call with that id sends nothing
\* and returns the value the answered call returned, so at most one lookup per
\* id is answered with 200; the lookups sent for an id are exactly the calls of
\* the resolver that sent one.
C1_AtMostOneAnsweredLookupPerId ==
    \A id \in AccountIds :
        /\ LookupCount(id) = Cardinality({j \in CallsOf(id) : calls[j].sent})
        /\ Cardinality({j \in CallsOf(id) : calls[j].status_code = 200}) <= 1
        /\ \A j, k \in CallsOf(id) :
               (j < k /\ calls[j].status_code = 200)
                   => (~calls[k].sent /\ calls[k].ret = calls[j].ret)

\* two calls with the same id, the first on an empty cache and answered 200:
\* one lookup sent
C1_Witness ==
    \E id \in AccountIds : \E j, k \in CallsOf(id) :
        /\ j < k
        /\ calls[j].before = EmptyCache
        /\ calls[j].status_code = 200
        /\ LookupCount(id) = 1

\* C2: the number of blocks in the output file is the number of URLs whose
\* parse and page fetch both succeeded, and once the loop is left every URL of
\* the list has been through it.
C2_BlocksEqualSuccesses ==
    /\ Len(md_file) = Cardinality({k \in 1..Len(trace) : trace[k].parsed /\ trace[k].fetched})
    /\ LoopLeft => Len(trace) = Len(page_urls)

\* C3: a display-name lookup that ends in a transport error or in a status
\* other than 200 returns the raw account id, the block of the page is in the
\* file with the account id as its author, and the run is not aborted.
C3_LookupFailureRecovered ==
    /\ pc # "raised"
    /\ \A j \in 1..Len(calls) :
           (calls[j].sent /\ (calls[j].error \/ calls[j].status_code # 200))
               => /\ calls[j].ret = calls[j].account_id
                  /\ \E b \in 1..Len(md_file) :
                         /\ origin[b] = calls[j].idx
                         /\ md_file[b][4] = <<"Author: ", <<calls[j].account_id>> >>

\* C4: every step leaves the content already in the output file in place as
\* a prefix of the new content, and the blocks stand in the order of the URLs
\* they were written for.
C4_AppendOnlyInOrder ==
    [][/\ IsPrefix(md_file, md_file')
       /\ Len(origin') = Len(md_file')
       /\ \A j, k \in 1..Len(origin') : j < k => origin'[j] < origin'[k]]_vars

\* the blocks of URL 1 and URL 3, with URL 2 skipped
C4_Witness == Len(md_file) = 2 /\ origin = <<1, 3>>

\* C5: the parser returns a failure, or a page id that is a non-empty run of
\* digits together with the base URL {scheme}://{netloc}/wiki.
C5_PageIdNumeric ==
    parse_out.done =>
        \/ parse_out.page_id = <<>> /\ parse_out.base_url = <<>>
        \/ /\ parse_out.page_id # <<>>
           /\ \A k \in 1..Len(parse_out.page_id) : parse_out.page_id[k] \in Digits
           /\ \E n \in 0..Len(url_in.rest) :
                  /\ \A k \in 1..n : url_in.rest[k] \notin SlashTokens \cup {"?"}
                  /\ parse_out.base_url =
                         <<url_in.scheme, "://", url_in.host>>
                             \o SubSeq(url_in.rest, 1, n) \o <<"/wiki">>

\* a missing API token or user name, a missing URL list or one without a
\* non-blank line
ConfigError ==
    \/ api_token \in {None, ""}
    \/ user_name \in {None, ""}
    \/ ~urls_txt.exists
    \/ \A k \in 1..Len(urls_txt.lines) : urls_txt.lines[k] = BlankLine

\* C6: a run with a configuration error never gets past the checks of main,
\* and a run that was aborted has sent no request and has not opened or
\* written the output file.
C6_ConfigErrorBeforeNetwork ==
    /\ ConfigError => pc \in {"main", "read", "aborted"}
    /\ (ConfigError \/ pc = "aborted")
           => (net = <<>> /\ handle = "none" /\ md_file = <<>> /\ calls = <<>>)

\* a run aborted for a URL list that has lines, all of them blank
C6_Witness ==
    /\ pc = "aborted"
    /\ api_token = "token"
    /\ user_name # None
    /\ urls_txt.exists
    /\ Len(urls_txt.lines) > 0

\* C7: a call of the resolver with an empty or absent account id sends no
\* request, returns the fallback label and leaves the cache as it was.
C7_EmptyIdNoLookup ==
    /\ \A j \in 1..Len(calls) :
           calls[j].account_id \in {None, ""}
               => /\ ~calls[j].sent
                  /\ calls[j].ret = UnknownCreator
                  /\ calls[j].after = calls[j].before
                  /\ calls[j].status_code = 0
    /\ LookupCount(None) = 0
    /\ LookupCount("") = 0

\* a call with "" on a cache that holds an entry, and a call with None
C7_Witness ==
    \E j, k \in 1..Len(calls) :
        /\ calls[j].account_id = ""
        /\ calls[j].before # EmptyCache
        /\ calls[k].account_id = None

\* C9: a lookup answered with a status other than 200 returns the raw account
\* id and leaves the cache as it was, the next call with the same id sends a
\* lookup again, and the cache holds only ids whose lookup was answered 200.
C9_FailureNotCached ==
    /\ \A j \in 1..Len(calls) :
           (calls[j].sent /\ ~calls[j].error /\ calls[j].status_code # 200)
               => /\ calls[j].ret = calls[j].account_id
                  /\ calls[j].after = calls[j].before
                  /\ \A k \in CallsOf(calls[j].account_id) :
                         (j < k /\ \A m \in CallsOf(calls[j].account_id) : ~(j < m /\ m < k))
                             => calls[k].sent
    /\ \A id \in DOMAIN user_cache :
           \E j \in CallsOf(id) : calls[j].status_code = 200

\* a lookup answered 404 followed by a call with the same id
C9_Witness ==
    \E id \in AccountIds : \E j, k \in CallsOf(id) :
        /\ j < k
        /\ calls[j].status_code = 404
        /\ calls[k].sent
        /\ LookupCount(id) >= 2

\* C8: every page that was fetched has exactly one block in the file, of the
\* fixed shape: title, URL, space, author, last-updated, an empty line, the
\* body, an empty line, with the fallback for each absent field; the run is
\* not aborted.
C8_OneBlockPerFetchedPage ==
    /\ pc # "raised"
    /\ \A k \in 1..Len(trace) :
           trace[k].fetched =>
               /\ Cardinality({b \in 1..Len(origin) : origin[b] = k}) = 1
               /\ \A b \in 1..Len(origin) :
                      origin[b] = k =>
                          /\ Len(md_file[b]) = 8
                          /\ md_file[b][1] = <<"# ", <<IF trace[k].json.title = None
                                                        THEN "No Title"
                                                        ELSE trace[k].json.title>> >>
                          /\ md_file[b][2][1] = "URL: "
                          /\ md_file[b][3][1] = "Space: "
                          /\ md_file[b][4][1] = "Author: "
                          /\ trace[k].json.accountId = None
                                 => md_file[b][4][2] = <<UnknownCreator>>
                          /\ md_file[b][5] = <<"Last updated: ",
                                               <<IF trace[k].json.friendlyWhen = None
                                                 THEN "N/A"
                                                 ELSE trace[k].json.friendlyWhen>> >>
                          /\ md_file[b][6] = <<"", <<>> >>
                          /\ md_file[b][7][1] = ""
                          /\ md_file[b][8] = <<"", <<>> >>

\* C10: the file handle is open only while the loop runs, it is closed in
\* every state after the loop is left, by its end or by an exception, and a
\* run that entered the loop leaves it.
C10_HandleClosedAfterLoop ==
    /\ [](handle = "open" => pc = "loop")
    /\ [](LoopLeft => handle = "closed")
    /\ (pc = "loop") ~> LoopLeft

\* the loop was left by an exception after a block was written
C10_Witness == pc = "raised" /\ handle = "closed" /\ Len(md_file) >= 1

====
